---- MODULE Spec2Model ----
(***************************************************************************)
(* A model of automated_trading_alerts.py: the position loader, the rule   *)
(* evaluator, the summary formatter, the notifier and the run pipeline     *)
(* run_automated_alerts, with the properties stated of them.               *)
(*                                                                         *)
(* A position is a mapping (a function whose DOMAIN is the set of keys     *)
(* present).  A raw field value is one of                                  *)
(*     [num |-> n]    a JSON number (or a value the CSV loader coerced)    *)
(*     [str |-> s]    a text value                                         *)
(*     [null |-> TRUE]  JSON null / the csv module's None for a short row  *)
(* Percentages and dollar amounts are integers here; every threshold of    *)
(* the program is an integer.                                              *)
(* The stop-loss markers of the source data are written "NO" (the cross    *)
(* mark) and "YES" (the check mark).                                       *)
(***************************************************************************)
EXTENDS Integers, Sequences, FiniteSets, TLC

VARIABLES
    DISCORD_TOKEN,      \* TRUE iff a token is configured (module global)
    files,              \* the snapshot files of the working directory
    latest_file,        \* loader local: the name of the file selected ("" if none)
    pc,                 \* position of run_automated_alerts
    positions,          \* local: the loaded position list
    alerts,             \* local: the evaluator's output
    news_summary,       \* local: the news digest text
    portfolio_summary,  \* local: the formatter's output
    calls,              \* the calls of send_discord_message made so far
    posts,              \* the HTTP POSTs performed so far
    status_file,        \* the contents of latest_alerts.json
    result              \* the value run_automated_alerts returned

vars == <<DISCORD_TOKEN, files, latest_file, pc, positions, alerts, news_summary,
          portfolio_summary, calls, posts, status_file, result>>

-----------------------------------------------------------------------------
(* Bounds of the model *)

MaxEvalLen == 2     \* longest position list given to the evaluator alone
MaxRunLen == 3      \* longest snapshot of a run, positions of every sort
MaxLongLen == 6     \* longest snapshot of a run, alert-raising positions only
MaxCtime == 3       \* file-creation timestamps are 1..MaxCtime

-----------------------------------------------------------------------------
(* Values and coercion *)

Num(n) == [num |-> n]
Str(s) == [str |-> s]
Null == [null |-> TRUE]

IsNum(v) == "num" \in DOMAIN v
IsStr(v) == "str" \in DOMAIN v

\* The texts float() accepts, with the number each denotes.
NumericText ==
    ("60" :> 60) @@ ("-20" :> -20) @@ ("0" :> 0) @@ ("200" :> 200) @@ ("50" :> 50)

\* float(v): a number stays, a numeric text is parsed, any other text raises
\* ValueError and None raises TypeError.
Float(v) ==
    IF IsNum(v) THEN [ok |-> TRUE, n |-> v.num]
    ELSE IF IsStr(v) /\ v.str \in DOMAIN NumericText
         THEN [ok |-> TRUE, n |-> NumericText[v.str]]
         ELSE [ok |-> FALSE, n |-> 0]

\* pos.get(key, default)
Get(pos, key, default) == IF key \in DOMAIN pos THEN pos[key] ELSE default

\* Python truthiness of a raw value: a non-empty text, a non-zero number.
Truthy(v) ==
    IF IsStr(v) THEN v.str # ""
    ELSE IF IsNum(v) THEN v.num # 0
    ELSE FALSE

-----------------------------------------------------------------------------
(* Rule Evaluator: analyze_positions *)

HighProfitPct == 50
LosingPct == -10
OversoldPct == -15
OverboughtPct == 80
OversoldRsi == 20
OverboughtRsi == 85
StopLossMargin == 100

\* The first if/elif pair with the oscillator's loss threshold in place of its own.
ProfitLossAlertsSharedThreshold(symbol, platform, pnl_percent, margin) ==
    IF pnl_percent > HighProfitPct
    THEN << [type |-> "high_profit", symbol |-> symbol, platform |-> platform,
             pnl |-> pnl_percent,
             message |-> <<"up", symbol, pnl_percent>>,
             channel |-> "portfolio"] >>
    ELSE IF pnl_percent < OversoldPct
    THEN << [type |-> "losing_trade", symbol |-> symbol, platform |-> platform,
             pnl |-> pnl_percent, margin |-> margin,
             message |-> <<"down", symbol, pnl_percent>>,
             channel |-> "portfolio"] >>
    ELSE << >>

\* The first if/elif pair of the loop body: profit / loss.
ProfitLossAlerts(symbol, platform, pnl_percent, margin) ==
    IF pnl_percent > HighProfitPct
    THEN << [type |-> "high_profit", symbol |-> symbol, platform |-> platform,
             pnl |-> pnl_percent,
             message |-> <<"up", symbol, pnl_percent>>,
             channel |-> "portfolio"] >>
    ELSE IF pnl_percent < LosingPct
    THEN << [type |-> "losing_trade", symbol |-> symbol, platform |-> platform,
             pnl |-> pnl_percent, margin |-> margin,
             message |-> <<"down", symbol, pnl_percent>>,
             channel |-> "portfolio"] >>
    ELSE << >>

\* The second if/elif pair: the simulated oscillator.
OscillatorAlerts(symbol, platform, pnl_percent) ==
    IF pnl_percent < OversoldPct
    THEN << [type |-> "oversold", symbol |-> symbol, platform |-> platform,
             rsi |-> OversoldRsi, pnl |-> pnl_percent,
             message |-> <<"oversold", symbol, OversoldRsi>>,
             channel |-> "alpha"] >>
    ELSE IF pnl_percent > OverboughtPct
    THEN << [type |-> "overbought", symbol |-> symbol, platform |-> platform,
             rsi |-> OverboughtRsi, pnl |-> pnl_percent,
             message |-> <<"overbought", symbol, OverboughtRsi>>,
             channel |-> "alpha"] >>
    ELSE << >>

\* The stop-loss check with the margin test dropped.
StopLossAlertsAnyMargin(pos, symbol, platform, margin) ==
    IF Get(pos, "SL Set?", "NO") = "NO"
    THEN << [type |-> "no_stop_loss", symbol |-> symbol, platform |-> platform,
             margin |-> margin,
             message |-> <<"needs stop loss", symbol, margin>>,
             channel |-> "portfolio"] >>
    ELSE << >>

\* The stop-loss check for high margin positions.
StopLossAlerts(pos, symbol, platform, margin) ==
    LET sl_set == Get(pos, "SL Set?", "NO")
    IN  IF sl_set = "NO" /\ margin > StopLossMargin
        THEN << [type |-> "no_stop_loss", symbol |-> symbol, platform |-> platform,
                 margin |-> margin,
                 message |-> <<"needs stop loss", symbol, margin>>,
                 channel |-> "portfolio"] >>
        ELSE << >>

\* The loop body with the oscillator pair placed before the profit/loss pair.
PositionAlertsOscFirst(pos) ==
    LET symbol == Get(pos, "Symbol", "Unknown")
        platform == Get(pos, "Platform", "Unknown")
        pnl_percent == Float(Get(pos, "PnL %", Num(0)))
        pnl_dollar == Float(Get(pos, "PnL $", Num(0)))
        margin == Float(Get(pos, "Margin Size ($)", Num(0)))
    IN  IF ~(pnl_percent.ok /\ pnl_dollar.ok /\ margin.ok)
        THEN << >>
        ELSE OscillatorAlerts(symbol, platform, pnl_percent.n)
             \o ProfitLossAlerts(symbol, platform, pnl_percent.n, margin.n)
             \o StopLossAlerts(pos, symbol, platform, margin.n)

\* One iteration of the loop: the alerts appended for one position.
PositionAlerts(pos) ==
    LET symbol == Get(pos, "Symbol", "Unknown")
        platform == Get(pos, "Platform", "Unknown")
        pnl_percent == Float(Get(pos, "PnL %", Num(0)))
        pnl_dollar == Float(Get(pos, "PnL $", Num(0)))
        margin == Float(Get(pos, "Margin Size ($)", Num(0)))
    IN  IF ~(pnl_percent.ok /\ pnl_dollar.ok /\ margin.ok)
        THEN << >>      \* except: continue
        ELSE ProfitLossAlerts(symbol, platform, pnl_percent.n, margin.n)
             \o OscillatorAlerts(symbol, platform, pnl_percent.n)
             \o StopLossAlerts(pos, symbol, platform, margin.n)

RECURSIVE analyze_positions(_)
analyze_positions(ps) ==
    IF ps = << >> THEN << >>
    ELSE PositionAlerts(Head(ps)) \o analyze_positions(Tail(ps))

-----------------------------------------------------------------------------
(* Position Loader: load_latest_positions *)

NumericKeys == {"PnL %", "PnL $", "Margin Size ($)"}

\* The CSV branch's coercion of one row: a present, truthy numeric field
\* becomes its float, or 0.0 when float() raises; any other field is kept.
CsvCoerce(row) ==
    [k \in DOMAIN row |->
        IF k \in NumericKeys /\ Truthy(row[k])
        THEN (IF Float(row[k]).ok THEN Num(Float(row[k]).n) ELSE Num(0))
        ELSE row[k]]

\* max(..., key=os.path.getctime): a file no other file of the set is newer
\* than; which one among equally new files depends on the order glob lists them.
Latest(fs) == {f \in fs : \A g \in fs : g.ctime <= f.ctime}

JsonFiles(fs) == {f \in fs : f.fmt = "json"}
CsvFiles(fs) == {f \in fs : f.fmt = "csv"}

\* The candidates with the format test reversed: CSV before JSON.
CandidatesCsvFirst(fs) ==
    IF CsvFiles(fs) # {} THEN Latest(CsvFiles(fs))
    ELSE IF JsonFiles(fs) # {} THEN Latest(JsonFiles(fs))
    ELSE {}

\* The files load_latest_positions may select: JSON first, CSV as fallback.
Candidates(fs) ==
    IF JsonFiles(fs) # {} THEN Latest(JsonFiles(fs))
    ELSE IF CsvFiles(fs) # {} THEN Latest(CsvFiles(fs))
    ELSE {}

\* What reading the selected file returns; a failure of open / json.load /
\* the csv reader is caught by the function's except clause and gives [].
ReadFile(f) ==
    IF ~f.readable THEN << >>
    ELSE IF f.fmt = "json" THEN f.content
    ELSE [i \in 1..Len(f.content) |-> CsvCoerce(f.content[i])]

-----------------------------------------------------------------------------
(* Summary Formatter: generate_portfolio_summary *)

PnlPercent(p) == Float(Get(p, "PnL %", Num(0)))

\* len([p for p in positions if float(p.get('PnL %', 0)) > 0]), and < 0
CountProfitable(ps) == Cardinality({i \in 1..Len(ps) : PnlPercent(ps[i]).n > 0})
CountLosing(ps) == Cardinality({i \in 1..Len(ps) : PnlPercent(ps[i]).n < 0})

\* float(p.get('PnL %', 0)) raises for some position of the list.
PnlRaises(ps) == \E i \in 1..Len(ps) : ~PnlPercent(ps[i]).ok

RECURSIVE TotalPnl(_)
TotalPnl(ps) ==
    IF ps = << >> THEN 0
    ELSE (IF Float(Get(Head(ps), "PnL $", Num(0))).ok
          THEN Float(Get(Head(ps), "PnL $", Num(0))).n ELSE 0) + TotalPnl(Tail(ps))

AlertCounts(as) ==
    [t \in {as[i].type : i \in 1..Len(as)} |->
        Cardinality({i \in 1..Len(as) : as[i].type = t})]

SummaryError == [error |-> "Error generating portfolio summary"]

\* The formatter counting every non-profitable position as losing.
generate_portfolio_summary_le(ps, as) ==
    IF PnlRaises(ps) THEN SummaryError
    ELSE [total_positions |-> Len(ps),
          profitable_positions |-> CountProfitable(ps),
          losing_positions |-> Len(ps) - CountProfitable(ps),
          total_pnl |-> TotalPnl(ps),
          total_alerts |-> Len(as),
          alert_counts |-> AlertCounts(as)]

\* The text block, as the values rendered into it (the clock time left out).
generate_portfolio_summary(ps, as) ==
    IF PnlRaises(ps) THEN SummaryError
    ELSE [total_positions |-> Len(ps),
          profitable_positions |-> CountProfitable(ps),
          losing_positions |-> CountLosing(ps),
          total_pnl |-> TotalPnl(ps),
          total_alerts |-> Len(as),
          alert_counts |-> AlertCounts(as)]

-----------------------------------------------------------------------------
(* Notifier: send_discord_message *)

ALPHA_CHANNEL_ID == "1399790636990857277"
PORTFOLIO_CHANNEL_ID == "1399451217372905584"

HttpOk == 200

\* What requests.post may do: raise, or answer with a status code.
Responses ==
    {[exception |-> TRUE, status_code |-> 0]} \cup
    {[exception |-> FALSE, status_code |-> c] : c \in {200, 204, 404}}

\* The notifier taking every answered request for a success.
send_discord_message_any_status(token, message, channel_id, response) ==
    IF ~token THEN [posts |-> << >>, returned |-> FALSE]
    ELSE [posts |-> << [channel_id |-> channel_id, response |-> response] >>,
          returned |-> ~response.exception]

\* send_discord_message(message, channel_id) when requests.post behaves as
\* `response`: the POSTs performed and the value returned.
send_discord_message(token, message, channel_id, response) ==
    IF ~token THEN [posts |-> << >>, returned |-> FALSE]
    ELSE [posts |-> << [channel_id |-> channel_id, response |-> response] >>,
          returned |-> IF response.exception THEN FALSE
                       ELSE response.status_code = HttpOk]

-----------------------------------------------------------------------------
(* The run: run_automated_alerts *)

MaxItemized == 5

SelectChannel(as, ch) == SelectSeq(as, LAMBDA a : a.channel = ch)

\* s[:n]
Prefix(s, n) == SubSeq(s, 1, IF Len(s) < n THEN Len(s) ELSE n)

Messages(as) == [i \in 1..Len(as) |-> as[i].message]

\* The message with every alert of the channel itemized.
BuildMessageUncapped(body, channel_alerts) ==
    [body |-> body,
     section |-> channel_alerts # << >>,
     items |-> Messages(channel_alerts)]

\* A message: its summary text, then (only when the channel has alerts) the
\* section header and one line for each of the first five alerts.
BuildMessage(body, channel_alerts) ==
    [body |-> body,
     section |-> channel_alerts # << >>,
     items |-> Messages(Prefix(channel_alerts, MaxItemized))]

PriorStatus == [prior |-> TRUE]

NewsTexts == {"digest", "No recent crypto news available",
              "Crypto news module not available"}

\* positions = load_latest_positions()
Load ==
    /\ pc = "start"
    /\ \/ /\ Candidates(files) = {}
          /\ latest_file' = ""
          /\ positions' = << >>
       \/ \E f \in Candidates(files) :
             /\ latest_file' = f.name
             /\ positions' = ReadFile(f)
    /\ pc' = "loaded"
    /\ UNCHANGED <<DISCORD_TOKEN, files, alerts, news_summary, portfolio_summary,
                   calls, posts, status_file, result>>

\* The empty-list test without its return: the run goes on.
NoDataGoesOn ==
    /\ pc = "loaded"
    /\ positions = << >>
    /\ alerts' = analyze_positions(positions)
    /\ pc' = "analyzed"
    /\ UNCHANGED <<DISCORD_TOKEN, files, latest_file, positions, news_summary,
                   portfolio_summary, calls, posts, status_file, result>>

\* if not positions: return False
NoData ==
    /\ pc = "loaded"
    /\ positions = << >>
    /\ pc' = "done"
    /\ result' = "False"
    /\ UNCHANGED <<DISCORD_TOKEN, files, latest_file, positions, alerts, news_summary,
                   portfolio_summary, calls, posts, status_file>>

\* alerts = analyze_positions(positions)
Analyze ==
    /\ pc = "loaded"
    /\ positions # << >>
    /\ alerts' = analyze_positions(positions)
    /\ pc' = "analyzed"
    /\ UNCHANGED <<DISCORD_TOKEN, files, latest_file, positions, news_summary,
                   portfolio_summary, calls, posts, status_file, result>>

\* news_summary = get_crypto_news_summary(): one of its three texts, as the
\* news module is present and has items, present without items, or failing.
GetNews ==
    /\ pc = "analyzed"
    /\ news_summary' \in NewsTexts
    /\ pc' = "news"
    /\ UNCHANGED <<DISCORD_TOKEN, files, latest_file, positions, alerts, portfolio_summary,
                   calls, posts, status_file, result>>

\* portfolio_summary = generate_portfolio_summary(positions, alerts)
Summarize ==
    /\ pc = "news"
    /\ portfolio_summary' = generate_portfolio_summary(positions, alerts)
    /\ pc' = "summary"
    /\ UNCHANGED <<DISCORD_TOKEN, files, latest_file, positions, alerts, news_summary,
                   calls, posts, status_file, result>>

\* One call of the notifier from the run, its value discarded by the caller.
Send(message, channel_id) ==
    \E response \in Responses :
        LET r == send_discord_message(DISCORD_TOKEN, message, channel_id, response)
        IN  /\ posts' = posts \o r.posts
            /\ calls' = Append(calls, [channel_id |-> channel_id,
                                       message |-> message,
                                       returned |-> r.returned])

SendPortfolio ==
    /\ pc = "summary"
    /\ Send(BuildMessage(portfolio_summary, SelectChannel(alerts, "portfolio")),
            PORTFOLIO_CHANNEL_ID)
    /\ pc' = "sent_portfolio"
    /\ UNCHANGED <<DISCORD_TOKEN, files, latest_file, positions, alerts, news_summary,
                   portfolio_summary, status_file, result>>

SendAlpha ==
    /\ pc = "sent_portfolio"
    /\ Send(BuildMessage(news_summary, SelectChannel(alerts, "alpha")),
            ALPHA_CHANNEL_ID)
    /\ pc' = "sent_alpha"
    /\ UNCHANGED <<DISCORD_TOKEN, files, latest_file, positions, alerts, news_summary,
                   portfolio_summary, status_file, result>>

\* The status record (the clock time left out).
AlertsData ==
    [total_alerts |-> Len(alerts),
     alerts |-> alerts,
     portfolio_summary |->
        [total_positions |-> Len(positions),
         profitable_count |-> CountProfitable(positions),
         losing_count |-> CountLosing(positions)]]

\* Building alerts_data raises (float() of a PnL % value): the outer except
\* clause returns False before latest_alerts.json is opened.
SaveRaises ==
    /\ pc = "sent_alpha"
    /\ PnlRaises(positions)
    /\ pc' = "done"
    /\ result' = "False"
    /\ UNCHANGED <<DISCORD_TOKEN, files, latest_file, positions, alerts, news_summary,
                   portfolio_summary, calls, posts, status_file>>

\* alerts_data is written to latest_alerts.json and the run returns True.
Save ==
    /\ pc = "sent_alpha"
    /\ ~PnlRaises(positions)
    /\ status_file' = AlertsData
    /\ pc' = "done"
    /\ result' = "True"
    /\ UNCHANGED <<DISCORD_TOKEN, files, latest_file, positions, alerts, news_summary,
                   portfolio_summary, calls, posts>>

Next ==
    \/ Load
    \/ NoData
    \/ Analyze
    \/ GetNews
    \/ Summarize
    \/ SendPortfolio
    \/ SendAlpha
    \/ SaveRaises
    \/ Save

-----------------------------------------------------------------------------
(* Initial states *)

Lists(pool, n) == UNION {[1..k -> pool] : k \in 0..n}

Position(symbol, pnl, usd, mar) ==
    ("Symbol" :> symbol) @@ ("PnL %" :> pnl) @@ ("PnL $" :> usd)
        @@ ("Margin Size ($)" :> mar)

WithSL(pos, sl) == pos @@ ("SL Set?" :> sl)

Without(pos, key) == [k \in DOMAIN pos \ {key} |-> pos[k]]

\* PnL percentages on, and on either side of, every threshold.
PnlPoints == {-20, -15, -10, 0, 50, 60, 80, 85}
MarginPoints == {100, 200}

NumericPositions ==
    LET base == {Position("BTC", Num(p), Num(5), Num(m)) :
                    p \in PnlPoints, m \in MarginPoints}
    IN  base \cup {WithSL(b, "NO") : b \in base} \cup {WithSL(b, "YES") : b \in base}

TextPosition == Position("ETH", Str("60"), Str("0"), Str("200"))
BadPnlPosition == Position("XRP", Str("abc"), Num(5), Num(200))
EmptyPnlPosition == Position("XRP", Str(""), Num(5), Num(200))
BadDollarPosition == Position("ADA", Num(60), Str("abc"), Num(200))
NullMarginPosition == Position("DOT", Num(60), Num(5), Null)
BarePosition == ("Symbol" :> "SOL")
NoSymbolPosition == ("PnL %" :> Num(-20)) @@ ("Platform" :> "Blofin")

EvalPool ==
    NumericPositions \cup
    {TextPosition, BadPnlPosition, EmptyPnlPosition, BadDollarPosition,
     NullMarginPosition, BarePosition, NoSymbolPosition}

LosingPosition == Position("BTC", Num(-20), Num(-40), Num(200))
WinningPosition == WithSL(Position("ETH", Num(85), Num(30), Num(50)), "YES")
FlatPosition == WithSL(Position("SOL", Num(0), Num(0), Num(200)), "YES")
NoPnlPosition == Without(FlatPosition, "PnL %")
SmallWinPosition == Position("ADA", Num(10), Str("n/a"), Num(200))

RunPool ==
    {LosingPosition, WinningPosition, FlatPosition, NoPnlPosition,
     BadPnlPosition, SmallWinPosition}

LongPool == {LosingPosition, WinningPosition}

\* Rows as csv.DictReader yields them: every value a text.
CsvRow(symbol, pnl, usd, mar, sl) ==
    WithSL(Position(symbol, Str(pnl), Str(usd), Str(mar)), sl)

CsvPool ==
    {CsvRow("BTC", "-20", "0", "200", "NO"),
     CsvRow("ETH", "", "0", "50", "YES"),
     CsvRow("SOL", "abc", "0", "200", "YES"),
     CsvRow("ADA", "60", "50", "50", "YES")}

File(name, fmt, ctime, readable, content) ==
    [name |-> name, fmt |-> fmt, ctime |-> ctime, readable |-> readable,
     content |-> content]

\* The working directory of a run: no snapshot, one JSON snapshot (readable
\* or not), or one CSV snapshot.
RunDirectories ==
    {{}}
    \cup {{File("positions_1.json", "json", 1, TRUE, c)} :
            c \in Lists(RunPool, MaxRunLen) \cup Lists(LongPool, MaxLongLen)}
    \cup {{File("positions_1.json", "json", 1, FALSE, <<LosingPosition>>)}}
    \cup {{File("positions_1.csv", "csv", 1, TRUE, c)} : c \in Lists(CsvPool, MaxRunLen)}

FileNames ==
    ("positions_1.json" :> "json") @@ ("positions_2.json" :> "json")
        @@ ("positions_1.csv" :> "csv") @@ ("positions_2.csv" :> "csv")

\* Each candidate file holds one position, its symbol the file's name.
FileContent(name) ==
    IF FileNames[name] = "json" THEN << Position(name, Num(60), Num(5), Num(50)) >>
    ELSE << Position(name, Str("60"), Str("5"), Str("50")) >>

\* Working directories with up to two snapshots of each format.
LoadDirectories ==
    LET choices == [DOMAIN FileNames -> BOOLEAN \X (1..MaxCtime) \X BOOLEAN]
    IN  {{File(name, FileNames[name], ch[name][2], ch[name][3], FileContent(name)) :
            name \in {n \in DOMAIN FileNames : ch[n][1]}} : ch \in choices}

Fresh ==
    /\ latest_file = ""
    /\ alerts = << >>
    /\ news_summary = ""
    /\ portfolio_summary = [unset |-> TRUE]
    /\ calls = << >>
    /\ posts = << >>
    /\ status_file = PriorStatus
    /\ result = "none"

\* A run about to start.
Init ==
    /\ DISCORD_TOKEN \in BOOLEAN
    /\ files \in RunDirectories
    /\ pc = "start"
    /\ positions = << >>
    /\ Fresh

\* The loader about to be called.
InitLoad ==
    /\ DISCORD_TOKEN = FALSE
    /\ files \in LoadDirectories
    /\ pc = "start"
    /\ positions = << >>
    /\ Fresh

\* The evaluator about to be called on a position list.
InitEval ==
    /\ DISCORD_TOKEN = FALSE
    /\ files = {}
    /\ pc = "loaded"
    /\ positions \in Lists(EvalPool, MaxEvalLen) \ {<< >>}
    /\ Fresh

Spec == Init /\ [][Next]_vars

NextLoad == Load
SpecLoad == InitLoad /\ [][NextLoad]_vars

NextEval == Analyze
SpecEval == InitEval /\ [][NextEval]_vars

-----------------------------------------------------------------------------
(* Properties of the evaluator, checked under SpecEval *)

\* The three primary fields of a position as the evaluator reads them.
Field(p, key) == IF key \in DOMAIN p THEN p[key] ELSE Num(0)
Coercible(p) == \A key \in NumericKeys : Float(Field(p, key)).ok
PnlOf(p) == Float(Field(p, "PnL %")).n
MarginOf(p) == Float(Field(p, "Margin Size ($)")).n
SymbolOf(p) == IF "Symbol" \in DOMAIN p THEN p["Symbol"] ELSE "Unknown"

Types(as) == [i \in 1..Len(as) |-> as[i].type]
OfType(as, t) == SelectSeq(as, LAMBDA a : a.type = t)

\* What an alert says: its subject, its channel and the values it carries.
Said(a) ==
    [symbol |-> a.symbol, channel |-> a.channel,
     pnl |-> IF "pnl" \in DOMAIN a THEN <<a.pnl>> ELSE << >>,
     rsi |-> IF "rsi" \in DOMAIN a THEN <<a.rsi>> ELSE << >>]

\* The PnL percentages of the position list.
Pnls == {PnlOf(positions[i]) : i \in 1..Len(positions)}

\* The alerts of one kind a position list is to raise: one for each coercible
\* position that meets the kind's condition (a predicate on the PnL
\* percentages, as a function), in the order of the positions.
Due(ps, cond, channel, rsi) ==
    LET hit == SelectSeq(ps, LAMBDA p : Coercible(p) /\ cond[PnlOf(p)])
    IN  [i \in 1..Len(hit) |->
            [symbol |-> SymbolOf(hit[i]), channel |-> channel,
             pnl |-> <<PnlOf(hit[i])>>, rsi |-> rsi]]

SaidOfType(t) == [i \in 1..Len(OfType(alerts, t)) |-> Said(OfType(alerts, t)[i])]

\* C1: for the positions whose three numeric fields are coercible, the
\* evaluator raises one high_profit alert (portfolio) iff PnL% > 50, otherwise
\* one losing_trade alert (portfolio) iff PnL% < -10; and, independently, one
\* oversold alert (alpha, value 20) iff PnL% < -15, otherwise one overbought
\* alert (alpha, value 85) iff PnL% > 80; no alert of these four kinds is
\* raised in any other case.
C1_ThresholdGroups ==
    pc = "analyzed" =>
        /\ SaidOfType("high_profit")
             = Due(positions, [x \in Pnls |-> x > 50], "portfolio", << >>)
        /\ SaidOfType("losing_trade")
             = Due(positions, [x \in Pnls |-> ~(x > 50) /\ x < -10], "portfolio", << >>)
        /\ SaidOfType("oversold")
             = Due(positions, [x \in Pnls |-> x < -15], "alpha", <<20>>)
        /\ SaidOfType("overbought")
             = Due(positions, [x \in Pnls |-> ~(x < -15) /\ x > 80], "alpha", <<85>>)

\* A position at -20% raised losing_trade and oversold, one at 60% raised
\* high_profit and no oscillator alert.
C1_Witness ==
    /\ pc = "analyzed"
    /\ Len(positions) = 2
    /\ Coercible(positions[1]) /\ PnlOf(positions[1]) = -20
    /\ Coercible(positions[2]) /\ PnlOf(positions[2]) = 60
    /\ Types(alerts) = <<"losing_trade", "oversold", "high_profit">>

\* C2: the evaluator raises a no_stop_loss alert (portfolio) for a coercible
\* position iff its stop-loss flag is the "not set" marker or absent and its
\* margin is strictly greater than 100, whatever other alerts the position
\* raised.
C2_NoStopLoss ==
    pc = "analyzed" =>
        LET unprotected == SelectSeq(positions, LAMBDA p :
                /\ Coercible(p)
                /\ ("SL Set?" \notin DOMAIN p \/ p["SL Set?"] = "NO")
                /\ MarginOf(p) > 100)
            raised == OfType(alerts, "no_stop_loss")
        IN  /\ Len(raised) = Len(unprotected)
            /\ \A i \in 1..Len(raised) :
                 /\ raised[i].symbol = SymbolOf(unprotected[i])
                 /\ raised[i].margin = MarginOf(unprotected[i])
                 /\ raised[i].channel = "portfolio"

\* PnL% = 60, margin = 200, flag absent: exactly high_profit and no_stop_loss.
C2_Witness ==
    /\ pc = "analyzed"
    /\ Len(positions) = 1
    /\ Coercible(positions[1])
    /\ PnlOf(positions[1]) = 60 /\ MarginOf(positions[1]) = 200
    /\ "SL Set?" \notin DOMAIN positions[1]
    /\ Types(alerts) = <<"high_profit", "no_stop_loss">>

\* The rule group of an alert kind: profit/loss, oscillator, protection.
Group(t) ==
    CASE t \in {"high_profit", "losing_trade"} -> 1
      [] t \in {"oversold", "overbought"} -> 2
      [] OTHER -> 3

\* An alert is about a position: same subject, same values.
About(a, p) ==
    /\ Coercible(p)
    /\ a.symbol = SymbolOf(p)
    /\ ("pnl" \in DOMAIN a => a.pnl = PnlOf(p))
    /\ ("margin" \in DOMAIN a => a.margin = MarginOf(p))

\* The alerts can be dealt to the positions in order: each alert to the
\* current position, in a later group than the alert before it, or to a
\* later position.
RECURSIVE InOrder(_, _, _)
InOrder(as, ps, last) ==
    IF as = << >> THEN TRUE
    ELSE IF ps = << >> THEN FALSE
    ELSE IF About(Head(as), Head(ps)) /\ Group(Head(as).type) > last
         THEN InOrder(Tail(as), ps, Group(Head(as).type))
         ELSE InOrder(as, Tail(ps), 0)

\* C9: the evaluator returns at most 3 alerts for each position, in the order
\* of the positions and, for one position, in the order profit/loss,
\* oscillator, no_stop_loss; every alert's kind is one of the five kinds and
\* its channel is 'portfolio' or 'alpha'.
C9_BoundOrderKinds ==
    pc = "analyzed" =>
        /\ Len(alerts) <= 3 * Len(positions)
        /\ InOrder(alerts, positions, 0)
        /\ \A i \in 1..Len(alerts) :
             /\ alerts[i].type \in {"high_profit", "losing_trade", "oversold",
                                    "overbought", "no_stop_loss"}
             /\ alerts[i].channel \in {"portfolio", "alpha"}

\* Two different positions raised three alerts each.
C9_Witness ==
    /\ pc = "analyzed"
    /\ Len(positions) = 2
    /\ positions[1] # positions[2]
    /\ Types(alerts) = <<"losing_trade", "oversold", "no_stop_loss",
                         "high_profit", "overbought", "no_stop_loss">>

-----------------------------------------------------------------------------
(* Properties of the loader, checked under SpecLoad *)

Newest(fs) == {f \in fs : \A g \in fs : f.ctime >= g.ctime}
FileNamed(name) == CHOOSE f \in files : f.name = name

\* C7: the loader selects by format before recency: with a JSON snapshot
\* present it loads a JSON snapshot of the greatest creation time, however new
\* the CSV snapshots are, and a failure reading it gives the empty list with no
\* fallback to CSV; it loads a CSV snapshot of the greatest creation time only
\* when there is no JSON snapshot; with neither, the result is the empty list.
C7_FormatBeforeRecency ==
    pc = "loaded" =>
        LET json == {f \in files : f.fmt = "json"}
            csv == {f \in files : f.fmt = "csv"}
        IN  IF json # {}
            THEN /\ \E f \in Newest(json) : latest_file = f.name
                 /\ positions = IF FileNamed(latest_file).readable
                                THEN FileNamed(latest_file).content ELSE << >>
            ELSE IF csv # {}
            THEN /\ \E f \in Newest(csv) : latest_file = f.name
                 /\ positions = ReadFile(FileNamed(latest_file))
            ELSE latest_file = "" /\ positions = << >>

\* The older of two JSON snapshots was passed over, and a CSV snapshot newer
\* than both was not loaded.
C7_Witness ==
    /\ pc = "loaded"
    /\ \E j1 \in files, j2 \in files, c \in files :
         /\ j1.fmt = "json" /\ j2.fmt = "json" /\ c.fmt = "csv"
         /\ j1.ctime < j2.ctime /\ j2.ctime < c.ctime
         /\ latest_file = j2.name
         /\ positions = j2.content

-----------------------------------------------------------------------------
(* Properties of the run, checked under Spec *)

Channel(call) ==
    IF call.channel_id = PORTFOLIO_CHANNEL_ID THEN "portfolio" ELSE "alpha"

\* C3: when the loader yields the empty list the run returns False and no
\* later stage runs: no evaluation, no news fetch, no send to either channel,
\* no POST, and the status file is left as it was.
C3_EmptyListStops ==
    (pc # "start" /\ positions = << >>) =>
        /\ pc \in {"loaded", "done"}
        /\ pc = "done" => result = "False"
        /\ alerts = << >>
        /\ news_summary = ""
        /\ calls = << >>
        /\ posts = << >>
        /\ status_file = PriorStatus

\* A run over a snapshot that could not be read has returned.
C3_Witness ==
    /\ pc = "done"
    /\ positions = << >>
    /\ \E f \in files : ~f.readable
    /\ result = "False"

\* C4: in every run with a non-empty position list the steps occur in the
\* order evaluate, send to portfolio, send to alpha, write the status file;
\* both sends are attempted exactly once whatever the alerts; a failed
\* delivery prevents neither the next send nor the write, and the run writes
\* the status file and returns True.
C4_OrderAndResult ==
    /\ (calls # << >>) => calls[1].channel_id = PORTFOLIO_CHANNEL_ID
    /\ Len(calls) >= 2 => calls[2].channel_id = ALPHA_CHANNEL_ID
    /\ Len(calls) <= 2
    /\ status_file # PriorStatus => Len(calls) = 2
    /\ (pc = "done" /\ positions # << >>) =>
          /\ Len(calls) = 2
          /\ status_file # PriorStatus
          /\ result = "True"

\* Some position of the list has a primary numeric field that float() rejects.
SomeUnparsable(ps) == \E i \in 1..Len(ps) : ~Coercible(ps[i])

\* The alerts of the coercible positions of a list.
AlertsOfCoercible(ps) == analyze_positions(SelectSeq(ps, Coercible))

\* C5: an unparsable numeric field on one position never aborts the batch:
\* the evaluator skips only that position, and the run still performs both
\* sends, writes the status file and returns True.
C5_NeverAborts ==
    (positions # << >> /\ SomeUnparsable(positions)) =>
        /\ pc \in {"analyzed", "news", "summary", "sent_portfolio", "sent_alpha", "done"}
              => alerts = AlertsOfCoercible(positions)
        /\ pc = "done" =>
              /\ Len(calls) = 2
              /\ status_file # PriorStatus
              /\ result = "True"

\* C6: send_discord_message always returns a boolean; without a token it
\* makes no POST and returns False; with a token it makes exactly one POST
\* and returns False on a non-2xx status or an exception, and True only on a
\* successful response.
C6_NotifierContract ==
    /\ \A k \in 1..Len(calls) : calls[k].returned \in BOOLEAN
    /\ ~DISCORD_TOKEN =>
          /\ posts = << >>
          /\ \A k \in 1..Len(calls) : calls[k].returned = FALSE
    /\ DISCORD_TOKEN =>
          /\ Len(posts) = Len(calls)
          /\ \A k \in 1..Len(calls) :
               LET response == posts[k].response
                   success == /\ ~response.exception
                              /\ response.status_code \in 200..299
               IN  /\ posts[k].channel_id = calls[k].channel_id
                   /\ ~success => calls[k].returned = FALSE
                   /\ calls[k].returned = TRUE => success

\* With a token, one send was answered 404 and reported False, the next was
\* answered 200 and reported True.
C6_Witness ==
    /\ DISCORD_TOKEN
    /\ Len(calls) = 2 /\ Len(posts) = 2
    /\ posts[1].response.status_code = 404 /\ calls[1].returned = FALSE
    /\ posts[2].response.status_code = 200 /\ calls[2].returned = TRUE

\* The PnL % value of every position is a number (or absent).
AllPnlNumeric(ps) == \A i \in 1..Len(ps) : Float(Field(ps[i], "PnL %")).ok


\* C8: for a position list with numeric PnL % values the summary and the
\* status file report total = number of positions, profitable = number with
\* PnL% > 0, losing = number with PnL% < 0 (a position at 0%, or without a
\* PnL%, is in neither, so profitable + losing <= total), and the counts of
\* the status file are those of the summary message of the same run.
C8_Counts ==
    (positions # << >> /\ AllPnlNumeric(positions)) =>
        LET total == Len(positions)
            profitable == Cardinality({i \in 1..total : PnlOf(positions[i]) > 0})
            losing == Cardinality({i \in 1..total : PnlOf(positions[i]) < 0})
        IN  /\ pc \in {"summary", "sent_portfolio", "sent_alpha", "done"} =>
                 /\ portfolio_summary.total_positions = total
                 /\ portfolio_summary.profitable_positions = profitable
                 /\ portfolio_summary.losing_positions = losing
                 /\ profitable + losing <= total
            /\ pc \in {"sent_portfolio", "sent_alpha", "done"} =>
                 calls[1].message.body = portfolio_summary
            /\ pc = "done" =>
                 /\ status_file.portfolio_summary.total_positions = total
                 /\ status_file.portfolio_summary.profitable_count = profitable
                 /\ status_file.portfolio_summary.losing_count = losing
                 /\ status_file.portfolio_summary.profitable_count
                      = calls[1].message.body.profitable_positions
                 /\ status_file.portfolio_summary.losing_count
                      = calls[1].message.body.losing_positions
                 /\ status_file.portfolio_summary.total_positions
                      = calls[1].message.body.total_positions

\* A run over PnL% values 10, -20 and 0 reported total 3, profitable 1,
\* losing 1.
C8_Witness ==
    /\ pc = "done"
    /\ Len(positions) = 3
    /\ AllPnlNumeric(positions)
    /\ <<PnlOf(positions[1]), PnlOf(positions[2]), PnlOf(positions[3])>> = <<10, -20, 0>>
    /\ status_file # PriorStatus
    /\ status_file.portfolio_summary
         = [total_positions |-> 3, profitable_count |-> 1, losing_count |-> 1]

\* The first n elements of a sequence (all of it when it is shorter).
FirstN(s, n) == [i \in 1..(IF Len(s) < n THEN Len(s) ELSE n) |-> s[i]]

TaggedFor(ch) == SelectSeq(alerts, LAMBDA a : a.channel = ch)

\* C10: each outbound message itemizes the first 5 (at most) of the alerts
\* tagged for its channel, in evaluator order, and has no itemized section
\* when the channel has no alerts; the status file of a completed run holds
\* the whole alert list, total_alerts being its length and the number of
\* portfolio-tagged plus alpha-tagged alerts.
C10_CapAndFullList ==
    /\ \A k \in 1..Len(calls) :
         LET tagged == TaggedFor(Channel(calls[k]))
             message == calls[k].message
         IN  /\ Len(message.items) <= 5
             /\ message.items = [i \in 1..Len(FirstN(tagged, 5)) |->
                                    FirstN(tagged, 5)[i].message]
             /\ message.section = (tagged # << >>)
             /\ ~message.section => message.items = << >>
    /\ (pc = "done" /\ result = "True") =>
         /\ status_file.alerts = alerts
         /\ status_file.total_alerts = Len(status_file.alerts)
         /\ status_file.total_alerts
              = Len(TaggedFor("portfolio")) + Len(TaggedFor("alpha"))

\* A completed run with six alpha alerts and more than five portfolio alerts:
\* both messages itemize five, the status file holds them all.
C10_Witness ==
    /\ pc = "done" /\ result = "True"
    /\ Len(TaggedFor("alpha")) = 6
    /\ Len(TaggedFor("portfolio")) > 5
    /\ Len(calls[1].message.items) = 5
    /\ Len(calls[2].message.items) = 5
    /\ Len(status_file.alerts) = Len(alerts)
    /\ Len(status_file.alerts) > 11

====
